---------------------------- MODULE Spec2Model ----------------------------
(***************************************************************************)
(* Model of src/kyc_voice_bot.py (class KYCVoiceBot and main): the voice   *)
(* dialogue that collects name, phone, PAN and consent with bounded        *)
(* retries and saves the record after a successful session.                *)
(*                                                                         *)
(* A text (Python str) is a sequence of one-character strings.  Each       *)
(* action is one blocking I/O call of the program (speak, listen, the      *)
(* clock read, the file write, the final print) together with the pure     *)
(* code that runs up to the next I/O call.                                 *)
(***************************************************************************)
EXTENDS Naturals, Sequences, FiniteSets, TLC

(***************************************************************************)
(* Characters and the str methods the validators use.                      *)
(***************************************************************************)
DigitChars == {"0", "1", "2", "3", "4", "5", "6", "7", "8", "9"}

LowerSeq == <<"a", "b", "c", "d", "e", "f", "g", "h", "i", "j", "k", "l", "m",
              "n", "o", "p", "q", "r", "s", "t", "u", "v", "w", "x", "y", "z">>

UpperSeq == <<"A", "B", "C", "D", "E", "F", "G", "H", "I", "J", "K", "L", "M",
              "N", "O", "P", "Q", "R", "S", "T", "U", "V", "W", "X", "Y", "Z">>

LowerChars == {LowerSeq[i] : i \in 1..26}

UpperChars == {UpperSeq[i] : i \in 1..26}

\* characters str.strip() removes from ASCII text, those str.isspace() holds for:
\* space, \t, \n, \r, \f, and, written as the characters themselves, the
\* vertical tab 0x0b and the separators 0x1c, 0x1d, 0x1e, 0x1f
WhiteChars == {" ", "\t", "\n", "\r", "\f", "", "", "", "", ""}

\* the value None (no text has a multi-character element)
None == <<"None">>

\* \d in re.sub(r'[^\d]', '', s), and str.isdigit, on ASCII text
IsDigit(c) == c \in DigitChars

\* [a-zA-Z]
IsAlpha(c) == c \in LowerChars \cup UpperChars

IsNotSpace(c) == c # " "

UpperChar(c) ==
    IF c \in LowerChars THEN UpperSeq[CHOOSE i \in 1..26 : LowerSeq[i] = c] ELSE c

LowerChar(c) ==
    IF c \in UpperChars THEN LowerSeq[CHOOSE i \in 1..26 : UpperSeq[i] = c] ELSE c

\* str.upper()
Upper(s) == [i \in 1..Len(s) |-> UpperChar(s[i])]

\* str.lower()
Lower(s) == [i \in 1..Len(s) |-> LowerChar(s[i])]

RECURSIVE LStrip(_)
LStrip(s) == IF s # <<>> /\ Head(s) \in WhiteChars THEN LStrip(Tail(s)) ELSE s

RECURSIVE RStrip(_)
RStrip(s) ==
    IF s # <<>> /\ s[Len(s)] \in WhiteChars THEN RStrip(SubSeq(s, 1, Len(s) - 1)) ELSE s

\* str.strip()
Strip(s) == RStrip(LStrip(s))

\* the `in` operator on two str values: sub occurs in s
Contains(s, sub) ==
    \E i \in 1..(Len(s) + 1) :
        /\ i + Len(sub) - 1 <= Len(s)
        /\ SubSeq(s, i, i + Len(sub) - 1) = sub

(***************************************************************************)
(* Validators and extractors (pure functions over text).                   *)
(***************************************************************************)
\* variant of validate_name: the length is taken without trimming
validate_name_no_strip(name) ==
    IF name = <<>> \/ Len(name) < 2 THEN FALSE
    ELSE IF ~(\E i \in 1..Len(name) : IsAlpha(name[i])) THEN FALSE
    ELSE TRUE

validate_name(name) ==
    IF name = <<>> \/ Len(Strip(name)) < 2 THEN FALSE
    ELSE IF ~(\E i \in 1..Len(name) : IsAlpha(name[i])) THEN FALSE
    ELSE TRUE

validate_phone(phone) ==
    LET phone_cleaned == SelectSeq(phone, IsDigit)
    IN  /\ Len(phone_cleaned) = 10
        /\ phone_cleaned # <<>>
        /\ \A i \in 1..Len(phone_cleaned) : IsDigit(phone_cleaned[i])

\* re.match(r'^[A-Z]{5}[0-9]{4}[A-Z]$', s): $ also matches before a final newline
MatchPanPattern(s) ==
    /\ \/ Len(s) = 10
       \/ Len(s) = 11 /\ s[11] = "\n"
    /\ \A i \in 1..5 : s[i] \in UpperChars
    /\ \A i \in 6..9 : s[i] \in DigitChars
    /\ s[10] \in UpperChars

\* variant of validate_pan: the length is checked but the pattern is not
validate_pan_length_only(pan) ==
    LET pan_cleaned == Upper(SelectSeq(pan, IsNotSpace))
    IN  Len(pan_cleaned) = 10

\* variant of validate_pan: the text is not upper-cased before the pattern is matched
validate_pan_case_sensitive(pan) ==
    LET pan_cleaned == SelectSeq(pan, IsNotSpace)
    IN  Len(pan_cleaned) = 10 /\ MatchPanPattern(pan_cleaned)

validate_pan(pan) ==
    LET pan_cleaned == Upper(SelectSeq(pan, IsNotSpace))
    IN  Len(pan_cleaned) = 10 /\ MatchPanPattern(pan_cleaned)

\* variant of extract_phone: every digit is kept
extract_phone_no_cut(text) == SelectSeq(text, IsDigit)

extract_phone(text) ==
    LET digits == SelectSeq(text, IsDigit)
    IN  IF Len(digits) >= 10 THEN SubSeq(digits, 1, 10) ELSE digits

\* variant of extract_pan: the spaces are removed but the case is kept
extract_pan_no_upper(text) == SelectSeq(text, IsNotSpace)

extract_pan(text) == Upper(SelectSeq(text, IsNotSpace))

(***************************************************************************)
(* Bounds of the model and the texts listen() can return.                  *)
(***************************************************************************)
\* a spoken phone number carries 10 .. 10 + ExtraDigits digits
ExtraDigits == 1

DigitRunSeq == <<"9", "8", "7", "6", "5", "4", "3", "2", "1", "0">>

\* the n-digit text 9876543210 9876...
DigitRun(n) == [i \in 1..n |-> DigitRunSeq[((i - 1) % 10) + 1]]

Utterances ==
    {  <<"J", "o", "h", "n", " ", "S", "m", "i", "t", "h">>,
       <<"A">>,
       <<"9", "8", "-", "7", "6", "5", " ", "4", "3", "2", "1", "0">>,
       <<"a", "b", "c", "d", "e", " ", "1", "2", "3", "4", "f">>,
       <<"Y", "e", "s">>,
       <<"n", "o">>,
       <<"n", "o", "t", " ", "s", "u", "r", "e">>  }
    \cup {DigitRun(10 + k) : k \in 0..ExtraDigits}

\* listen() returns the stripped recognised text, or None
ListenResults == {None} \cup Utterances

\* values datetime.now().isoformat() can return
ClockValues == {<<"T", "1">>, <<"T", "2">>}

(***************************************************************************)
(* State.                                                                  *)
(***************************************************************************)
VARIABLES
    pc,               \* the I/O call the program is about to make
    field,            \* which collector call of run_kyc_session is active
    kyc_data,         \* self.kyc_data
    user_input,       \* local of get_input_with_retry
    processed_input,  \* local of get_input_with_retry
    attempt,          \* loop variable of the validation-retry loops
    response,         \* local of get_consent
    success,          \* main's success: "None" until run_kyc_session returns
    spoken,           \* the texts run_kyc_session's own statements passed to speak()
    last_spoken,      \* the text of the latest speak() call
    spoke,            \* whether speak() was called since the latest listen() call
    tts_error,        \* whether the latest speak() raised inside the TTS engine
    file,             \* kyc_session.json: <<the record it holds>>, or <<>> when it
                      \* holds none (no file, or a file cut short)
    saves,            \* number of save_to_json calls
    displayed,        \* the record main printed: <<>> or <<record>>
    listens,          \* listen() calls made by the active collector call
    absences,         \* how many of its latest listen() calls in a row gave None
    retries,          \* listen() calls it made inside its validation-retry loop
    total_listens,    \* listen() calls made in the whole session
    max_retries,      \* self.max_retries
    save_result,      \* what save_to_json returned: "None" before the call
    call_fn,          \* the pure function applied to call_arg: "none" before the call
    call_arg,         \* its text argument
    ret_text,         \* its result when that is a text
    ret_bool,         \* its result when that is a boolean
    turn,             \* 0 for one run; when two runs are compared, the run that is
                      \* stepping: 1 or 2
    twin,             \* when two runs are compared, the state of the run that waits
    mark              \* and the state the stepping run had when its turn began

vars == <<pc, field, kyc_data, user_input, processed_input, attempt, response,
          success, spoken, last_spoken, spoke, tts_error, file, saves, displayed,
          listens, absences, retries, total_listens, max_retries, save_result,
          call_fn, call_arg, ret_text, ret_bool, turn, twin, mark>>

locals == <<user_input, processed_input, attempt>>

outputs == <<file, saves, save_result, displayed>>

counters == <<listens, absences, retries, total_listens>>

\* the bookkeeping of a comparison of two runs
runs == <<turn, twin, mark>>

\* what no step of a session assigns
frozen == <<max_retries, call_fn, call_arg, ret_text, ret_bool, runs>>

\* the value __init__ gives self.max_retries
DefaultMaxRetries == 2

Msg(t) == [text |-> t, value |-> <<>>]

NoMsg == Msg("")

TextFields == {"name", "phone", "pan"}

EmptyRecord ==
    [name |-> <<>>, phone |-> <<>>, pan |-> <<>>, consent |-> FALSE, timestamp |-> <<>>]

\* a record an earlier run saved
OldRecord ==
    [name      |-> <<"A", "l">>,
     phone     |-> <<"9", "8", "7", "6", "5", "4", "3", "2", "1", "0">>,
     pan       |-> <<"A", "B", "C", "D", "E", "1", "2", "3", "4", "F">>,
     consent   |-> TRUE,
     timestamp |-> <<"T", "0">>]

\* kyc_session.json when main starts: not there, or left by an earlier run
FilesBefore == {<<>>, <<OldRecord>>}

\* the state __init__ leaves, with the record, the retry budget and the file given
SessionInit(data, budget, old) ==
    /\ pc = "welcome"
    /\ field = "name"
    /\ kyc_data = data
    /\ max_retries = budget
    /\ user_input = None
    /\ processed_input = None
    /\ attempt = 0
    /\ response = None
    /\ success = "None"
    /\ spoken = {}
    /\ last_spoken = NoMsg
    /\ spoke = FALSE
    /\ tts_error = FALSE
    /\ file = old
    /\ saves = 0
    /\ save_result = "None"
    /\ displayed = <<>>
    /\ listens = 0
    /\ absences = 0
    /\ retries = 0
    /\ total_listens = 0

\* no validator or extractor is being applied on its own
NoCall ==
    /\ call_fn = "none"
    /\ call_arg = <<>>
    /\ ret_text = None
    /\ ret_bool = FALSE

NoRun == [pc |-> "none"]

\* a single run: there is no other run to compare it with
OneRun ==
    /\ turn = 0
    /\ twin = NoRun
    /\ mark = NoRun

\* variant of Init: the record is stamped when it is created
Init_stamped ==
    \E old \in FilesBefore :
        SessionInit([EmptyRecord EXCEPT !.timestamp = <<"T", "1">>], DefaultMaxRetries, old)
        /\ NoCall
        /\ OneRun

Init ==
    \E old \in FilesBefore :
        SessionInit(EmptyRecord, DefaultMaxRetries, old) /\ NoCall /\ OneRun

\* the speak() calls written in run_kyc_session itself
SessionSpeakSites ==
    {"welcome", "unable_proceed", "confirm", "sum_name", "sum_phone", "sum_pan",
     "sum_consent", "complete"}

(***************************************************************************)
(* speak(): the text is printed; a TTS failure is caught and reported.     *)
(* The texts spoken by run_kyc_session itself are kept in `spoken`; of the *)
(* collectors' prompts and reprompts only the latest is kept.              *)
(***************************************************************************)
speak(m) ==
    /\ spoken' = IF pc \in SessionSpeakSites THEN spoken \cup {m} ELSE spoken
    /\ last_spoken' = m
    /\ spoke' = TRUE
    /\ tts_error' \in BOOLEAN

(***************************************************************************)
(* The arguments run_kyc_session passes to get_input_with_retry.           *)
(***************************************************************************)
prompt(f) ==
    CASE f = "name"  -> "May I have your full name please?"
      [] f = "phone" -> "Thank you. Now, please provide your 10-digit mobile number."
      [] f = "pan"   -> "Great. Now, please say your PAN number. That's 10 characters: 5 letters, 4 numbers, and 1 letter."

field_name(f) ==
    CASE f = "name"  -> "name"
      [] f = "phone" -> "phone number"
      [] f = "pan"   -> "PAN"

validation_func(f, x) ==
    CASE f = "name"  -> validate_name(x)
      [] f = "phone" -> validate_phone(x)
      [] f = "pan"   -> validate_pan(x)

\* variant of extract_func: no extractor is passed for the phone
extract_func_no_phone(f, x) ==
    CASE f = "name"  -> x
      [] f = "phone" -> x
      [] f = "pan"   -> extract_pan(x)

extract_func(f, x) ==
    CASE f = "name"  -> x
      [] f = "phone" -> extract_phone(x)
      [] f = "pan"   -> extract_pan(x)

\* variant of next_field: the phone step is skipped
next_field_skip_phone(f) ==
    CASE f = "name"  -> "pan"
      [] f = "phone" -> "pan"
      [] f = "pan"   -> "consent"

\* variant of next_field: the name is asked for again after the phone
next_field_back(f) ==
    CASE f = "name"  -> "phone"
      [] f = "phone" -> "name"
      [] f = "pan"   -> "consent"

next_field(f) ==
    CASE f = "name"  -> "phone"
      [] f = "phone" -> "pan"
      [] f = "pan"   -> "consent"

\* variant of after_collect: a failed field does not end the session
after_collect_continue(f, data, value) ==
    [pc       |-> IF f = "pan" THEN "c_prompt" ELSE "g_prompt",
     field    |-> next_field(f),
     kyc_data |-> IF value # None /\ value # <<>> THEN [data EXCEPT ![f] = value] ELSE data]

(***************************************************************************)
(* run_kyc_session after a get_input_with_retry call returned `value`:     *)
(* a truthy value is stored and the next collector is called, otherwise    *)
(* the session is about to speak its termination message.                  *)
(***************************************************************************)
after_collect(f, data, value) ==
    IF value # None /\ value # <<>>
    THEN [pc       |-> IF f = "pan" THEN "c_prompt" ELSE "g_prompt",
          field    |-> next_field(f),
          kyc_data |-> [data EXCEPT ![f] = value]]
    ELSE [pc |-> "unable_proceed", field |-> f, kyc_data |-> data]

\* variant of loop_head: one iteration too many
loop_head_off_by_one(a, body, exhausted) == IF a <= max_retries THEN body ELSE exhausted

\* the head of `for attempt in range(self.max_retries)` reached for the value a: the
\* body runs with attempt = a, or the range is used up and attempt keeps its value
loop_head(a, body, exhausted) == IF a < max_retries THEN body ELSE exhausted

\* the listen() call itself: one more call, and a longer or a broken run of None
heard(r) ==
    /\ listens' = listens + 1
    /\ total_listens' = total_listens + 1
    /\ absences' = IF r = None THEN absences + 1 ELSE 0
    /\ spoke' = FALSE

\* a captured text in get_input_with_retry: extract, validate, return or retry
captured(r, a) ==
    LET p == extract_func(field, r)
    IN  /\ processed_input' = p
        /\ IF validation_func(field, p)
           THEN LET n == after_collect(field, kyc_data, p)
                IN  /\ pc' = n.pc
                    /\ field' = n.field
                    /\ kyc_data' = n.kyc_data
                    /\ attempt' = attempt
           ELSE /\ attempt' = loop_head(a, a, attempt)
                /\ pc' = loop_head(a, "g_invalid", "g_unable_verify")
                /\ UNCHANGED <<field, kyc_data>>

\* variant of SpeakAt: speak() has no handler, a TTS failure ends the program
SpeakAt_raises(at, m, to) ==
    /\ pc = at
    /\ speak(m)
    /\ pc' = IF tts_error' THEN "done" ELSE to
    /\ UNCHANGED frozen
    /\ UNCHANGED <<field, kyc_data, locals, response, success, outputs, counters>>

\* a speak() call that is followed by no other code before the next I/O call
SpeakAt(at, m, to) ==
    /\ pc = at
    /\ speak(m)
    /\ pc' = to
    /\ UNCHANGED frozen
    /\ UNCHANGED <<field, kyc_data, locals, response, success, outputs, counters>>

\* a listen() call of the capture ladder of get_input_with_retry
LadderListen(at, on_none) ==
    /\ pc = at
    /\ \E r \in ListenResults :
        /\ user_input' = r
        /\ heard(r)
        /\ IF r = None
           THEN /\ pc' = on_none
                /\ UNCHANGED <<field, kyc_data, processed_input, attempt>>
           ELSE captured(r, 0)
    /\ UNCHANGED frozen
    /\ UNCHANGED <<response, success, spoken, last_spoken, tts_error, outputs, retries>>

(***************************************************************************)
(* run_kyc_session: the welcome message.                                   *)
(***************************************************************************)
Welcome ==
    SpeakAt("welcome",
            Msg("Welcome to Decentro KYC verification. I will guide you through a quick verification process."),
            "g_prompt")

(***************************************************************************)
(* get_input_with_retry.                                                   *)
(***************************************************************************)
G_Prompt ==
    /\ pc = "g_prompt"
    /\ speak(Msg(prompt(field)))
    /\ pc' = "g_listen1"
    /\ user_input' = None
    /\ processed_input' = None
    /\ attempt' = 0
    /\ listens' = 0
    /\ absences' = 0
    /\ retries' = 0
    /\ UNCHANGED frozen
    /\ UNCHANGED <<field, kyc_data, response, success, outputs, total_listens>>

\* variant of G_Listen1: a first absence is followed by the second listen call at once
G_Listen1_no_reprompt == LadderListen("g_listen1", "g_listen2")

G_Listen1 == LadderListen("g_listen1", "g_reprompt1")

G_Reprompt1 ==
    SpeakAt("g_reprompt1", Msg("I didn't catch that. Please say it again."), "g_listen2")

\* variant of G_Listen2: the collector gives up after the second absence
G_Listen2_give_up == LadderListen("g_listen2", "g_couldnt_hear")

G_Listen2 == LadderListen("g_listen2", "g_reprompt2")

\* variant of G_Reprompt2: the second reprompt is followed by the second listen again
G_Reprompt2_loop ==
    SpeakAt("g_reprompt2",
            Msg("I'm still having trouble hearing you. Let's try one more time."),
            "g_listen2")

G_Reprompt2 ==
    SpeakAt("g_reprompt2",
            Msg("I'm still having trouble hearing you. Let's try one more time."),
            "g_listen3")

\* variant of G_Listen3: a third absence is handled as a validation failure
G_Listen3_retry == LadderListen("g_listen3", "g_invalid")

G_Listen3 == LadderListen("g_listen3", "g_couldnt_hear")

\* final failure of the ladder: return None, so run_kyc_session takes its else branch
G_CouldntHear ==
    SpeakAt("g_couldnt_hear",
            Msg("I'm sorry, I couldn't hear your " \o field_name(field) \o "."),
            after_collect(field, kyc_data, None).pc)

G_Invalid ==
    SpeakAt("g_invalid",
            Msg("That " \o field_name(field) \o " doesn't seem valid. Please try again."),
            "g_retry_listen")

G_RetryListen ==
    /\ pc = "g_retry_listen"
    /\ \E r \in ListenResults :
        /\ user_input' = r
        /\ heard(r)
        /\ IF r = None
           THEN /\ pc' = IF attempt + 1 < max_retries THEN "g_didnt_catch" ELSE "g_no_response"
                /\ UNCHANGED <<field, kyc_data, processed_input, attempt>>
           ELSE captured(r, attempt + 1)
    /\ retries' = retries + 1
    /\ UNCHANGED frozen
    /\ UNCHANGED <<response, success, spoken, last_spoken, tts_error, outputs>>

\* variant of G_DidntCatch: an absence does not use up the iteration
G_DidntCatch_bonus ==
    /\ pc = "g_didnt_catch"
    /\ speak(Msg("I didn't catch that. Let's try again."))
    /\ attempt' = attempt
    /\ pc' = loop_head(attempt, "g_invalid", "g_unable_verify")
    /\ UNCHANGED frozen
    /\ UNCHANGED <<field, kyc_data, user_input, processed_input, response, success,
                   outputs, counters>>

\* speak, then `continue`: the next iteration of the loop
G_DidntCatch ==
    /\ pc = "g_didnt_catch"
    /\ speak(Msg("I didn't catch that. Let's try again."))
    /\ attempt' = attempt + 1
    /\ pc' = loop_head(attempt + 1, "g_invalid", "g_unable_verify")
    /\ UNCHANGED frozen
    /\ UNCHANGED <<field, kyc_data, user_input, processed_input, response, success,
                   outputs, counters>>

G_NoResponse ==
    SpeakAt("g_no_response", Msg("I'm sorry, I couldn't hear your response."),
            after_collect(field, kyc_data, None).pc)

G_UnableVerify ==
    SpeakAt("g_unable_verify",
            Msg("I was unable to verify your " \o field_name(field) \o "."),
            after_collect(field, kyc_data, None).pc)

(***************************************************************************)
(* run_kyc_session: a required field failed; speak, return False to main.  *)
(***************************************************************************)
unable_message(f) ==
    CASE f = "name"  -> "Unable to proceed without a valid name. Ending verification."
      [] f = "phone" -> "Unable to proceed without a valid phone number. Ending verification."
      [] f = "pan"   -> "Unable to proceed without a valid PAN. Ending verification."

UnableProceed ==
    /\ pc = "unable_proceed"
    /\ speak(Msg(unable_message(field)))
    /\ success' = "False"
    /\ pc' = "partial"
    /\ UNCHANGED frozen
    /\ UNCHANGED <<field, kyc_data, locals, response, outputs, counters>>

(***************************************************************************)
(* get_consent.                                                            *)
(***************************************************************************)
YesWords == { <<"y", "e", "s">>, <<"y", "e", "a", "h">>, <<"s", "u", "r", "e">> }

NoWords == { <<"n", "o">>, <<"n", "o", "p", "e">> }

\* variant of classify: a response that is neither yes nor no counts as yes
classify_default_yes(resp) ==
    LET response_lower == Lower(resp)
    IN  IF \E w \in YesWords : Contains(response_lower, w) THEN "yes"
        ELSE IF \E w \in NoWords : Contains(response_lower, w) THEN "no"
        ELSE "yes"

\* variant of classify: the refusal words are looked for first
classify_no_first(resp) ==
    LET response_lower == Lower(resp)
    IN  IF \E w \in NoWords : Contains(response_lower, w) THEN "no"
        ELSE IF \E w \in YesWords : Contains(response_lower, w) THEN "yes"
        ELSE "invalid"

\* the if / elif on response.lower(): "yes", "no", or neither branch taken
classify(resp) ==
    LET response_lower == Lower(resp)
    IN  IF \E w \in YesWords : Contains(response_lower, w) THEN "yes"
        ELSE IF \E w \in NoWords : Contains(response_lower, w) THEN "no"
        ELSE "invalid"

\* variant of after_consent: the session goes on whatever the consent
after_consent_no_abort(data, consent) ==
    [pc       |-> "confirm",
     success  |-> "None",
     kyc_data |-> [data EXCEPT !.consent = consent]]

\* variant of after_consent: a given consent leads straight to the timestamp
after_consent_skip_summary(data, consent) ==
    [pc       |-> IF ~consent THEN "partial" ELSE "stamp",
     success  |-> IF ~consent THEN "False" ELSE "None",
     kyc_data |-> [data EXCEPT !.consent = consent]]

\* run_kyc_session after get_consent returned `consent`
after_consent(data, consent) ==
    [pc       |-> IF ~consent THEN "partial" ELSE "confirm",
     success  |-> IF ~consent THEN "False" ELSE "None",
     kyc_data |-> [data EXCEPT !.consent = consent]]

\* variant of consent_captured: a refusal returns False without the spoken message
consent_captured_silent(r, a, declined) ==
    LET c == classify(r)
    IN  IF c = "yes"
        THEN LET n == after_consent(kyc_data, TRUE)
             IN  /\ pc' = n.pc
                 /\ success' = n.success
                 /\ kyc_data' = n.kyc_data
                 /\ attempt' = attempt
        ELSE IF c = "no"
        THEN LET n == after_consent(kyc_data, FALSE)
             IN  /\ pc' = n.pc
                 /\ success' = n.success
                 /\ kyc_data' = n.kyc_data
                 /\ attempt' = attempt
        ELSE /\ attempt' = loop_head(a, a, attempt)
             /\ pc' = loop_head(a, "c_say_yes_no", "c_not_understood")
             /\ UNCHANGED <<success, kyc_data>>

\* a captured response in get_consent: return True, decline, or retry
consent_captured(r, a, declined) ==
    LET c == classify(r)
    IN  IF c = "yes"
        THEN LET n == after_consent(kyc_data, TRUE)
             IN  /\ pc' = n.pc
                 /\ success' = n.success
                 /\ kyc_data' = n.kyc_data
                 /\ attempt' = attempt
        ELSE IF c = "no"
        THEN /\ pc' = declined
             /\ UNCHANGED <<success, kyc_data, attempt>>
        ELSE /\ attempt' = loop_head(a, a, attempt)
             /\ pc' = loop_head(a, "c_say_yes_no", "c_not_understood")
             /\ UNCHANGED <<success, kyc_data>>

\* a listen() call of the capture ladder of get_consent
ConsentLadderListen(at, on_none) ==
    /\ pc = at
    /\ \E r \in ListenResults :
        /\ response' = r
        /\ heard(r)
        /\ IF r = None
           THEN /\ pc' = on_none
                /\ UNCHANGED <<success, kyc_data, attempt>>
           ELSE consent_captured(r, 0, "c_declined")
    /\ UNCHANGED frozen
    /\ UNCHANGED <<field, user_input, processed_input, spoken, last_spoken, tts_error,
                   outputs, retries>>

\* a speak() call followed by `return False`, which run_kyc_session stores and returns
ConsentFalseAt(at, m) ==
    /\ pc = at
    /\ speak(m)
    /\ LET n == after_consent(kyc_data, FALSE)
       IN  /\ pc' = n.pc
           /\ success' = n.success
           /\ kyc_data' = n.kyc_data
    /\ UNCHANGED frozen
    /\ UNCHANGED <<field, locals, response, outputs, counters>>

C_Prompt ==
    /\ pc = "c_prompt"
    /\ speak(Msg("Do you consent to this KYC verification? Please say yes or no."))
    /\ pc' = "c_listen1"
    /\ user_input' = None
    /\ processed_input' = None
    /\ attempt' = 0
    /\ response' = None
    /\ listens' = 0
    /\ absences' = 0
    /\ retries' = 0
    /\ UNCHANGED frozen
    /\ UNCHANGED <<field, kyc_data, success, outputs, total_listens>>

C_Listen1 == ConsentLadderListen("c_listen1", "c_reprompt1")

C_Reprompt1 ==
    SpeakAt("c_reprompt1", Msg("I didn't catch that. Do you consent? Say yes or no."),
            "c_listen2")

C_Listen2 == ConsentLadderListen("c_listen2", "c_reprompt2")

C_Reprompt2 ==
    SpeakAt("c_reprompt2", Msg("Please say yes or no for consent."), "c_listen3")

C_Listen3 == ConsentLadderListen("c_listen3", "c_couldnt_get")

C_CouldntGet ==
    ConsentFalseAt("c_couldnt_get",
                   Msg("I couldn't get your consent. Verification cannot proceed."))

C_Declined ==
    ConsentFalseAt("c_declined",
                   Msg("You have declined consent. Verification cannot proceed."))

C_SayYesNo == SpeakAt("c_say_yes_no", Msg("Please say yes or no."), "c_retry_listen")

C_RetryListen ==
    /\ pc = "c_retry_listen"
    /\ \E r \in ListenResults :
        /\ response' = r
        /\ heard(r)
        /\ IF r = None
           THEN /\ pc' = IF attempt + 1 < max_retries
                         THEN "c_didnt_hear" ELSE "c_couldnt_get_retry"
                /\ UNCHANGED <<success, kyc_data, attempt>>
           ELSE consent_captured(r, attempt + 1, "c_declined_retry")
    /\ retries' = retries + 1
    /\ UNCHANGED frozen
    /\ UNCHANGED <<field, user_input, processed_input, spoken, last_spoken, tts_error,
                   outputs>>

\* speak, then `continue`: the next iteration of the loop
C_DidntHear ==
    /\ pc = "c_didnt_hear"
    /\ speak(Msg("I didn't hear you. Say yes or no."))
    /\ attempt' = attempt + 1
    /\ pc' = loop_head(attempt + 1, "c_say_yes_no", "c_not_understood")
    /\ UNCHANGED frozen
    /\ UNCHANGED <<field, kyc_data, user_input, processed_input, response, success,
                   outputs, counters>>

C_CouldntGetRetry ==
    ConsentFalseAt("c_couldnt_get_retry",
                   Msg("I couldn't get your consent. Verification cannot proceed."))

C_DeclinedRetry ==
    ConsentFalseAt("c_declined_retry",
                   Msg("You have declined consent. Verification cannot proceed."))

C_NotUnderstood ==
    ConsentFalseAt("c_not_understood",
                   Msg("I couldn't understand your response. Verification cannot proceed."))

(***************************************************************************)
(* run_kyc_session: summary, timestamp, completion.                        *)
(***************************************************************************)
Confirm == SpeakAt("confirm", Msg("Thank you. Let me confirm your details."), "sum_name")

SumName ==
    SpeakAt("sum_name", [text |-> "Name: ", value |-> kyc_data.name], "sum_phone")

SumPhone ==
    SpeakAt("sum_phone", [text |-> "Phone: ", value |-> kyc_data.phone], "sum_pan")

SumPan ==
    SpeakAt("sum_pan", [text |-> "PAN: ", value |-> kyc_data.pan], "sum_consent")

SumConsent == SpeakAt("sum_consent", Msg("Consent: Provided"), "stamp")

Stamp ==
    /\ pc = "stamp"
    /\ \E now \in ClockValues : kyc_data' = [kyc_data EXCEPT !.timestamp = now]
    /\ pc' = "complete"
    /\ UNCHANGED frozen
    /\ UNCHANGED <<field, locals, response, success, spoken, last_spoken, spoke, tts_error,
                   outputs, counters>>

\* the completion message, `return True`, and main's `if success`
Complete ==
    /\ pc = "complete"
    /\ speak(Msg("Your KYC verification is complete. Thank you for using Decentro services."))
    /\ success' = "True"
    /\ pc' = "save"
    /\ UNCHANGED frozen
    /\ UNCHANGED <<field, kyc_data, locals, response, outputs, counters>>

(***************************************************************************)
(* main after run_kyc_session returned; save_to_json.                      *)
(***************************************************************************)
\* how a save_to_json call can go: open() raises, open() empties the file and the
\* write (json.dump, or the flush when the file is closed) raises, or all is written
SaveOutcomes == {"open_fails", "write_fails", "written"}

\* the file and the value returned for the record `data`, the file `old` before the
\* call and the way the call goes; either exception is caught
save_to_json(data, old, outcome) ==
    IF outcome = "written" THEN [file |-> <<data>>, result |-> "True"]
    ELSE IF outcome = "write_fails" THEN [file |-> <<>>, result |-> "False"]
    ELSE [file |-> old, result |-> "False"]

\* variant of Save: a failed write is not caught and ends main before the display
Save_raises ==
    /\ pc = "save"
    /\ success = "True"
    /\ \E outcome \in SaveOutcomes :
          LET saved == save_to_json(kyc_data, file, outcome)
          IN  /\ file' = saved.file
              /\ save_result' = saved.result
              /\ pc' = IF outcome = "written" THEN "display" ELSE "done"
    /\ saves' = saves + 1
    /\ UNCHANGED frozen
    /\ UNCHANGED <<field, kyc_data, locals, response, success, spoken, last_spoken, spoke,
                   tts_error, displayed, counters>>

Save ==
    /\ pc = "save"
    /\ success = "True"
    /\ \E outcome \in SaveOutcomes :
          LET saved == save_to_json(kyc_data, file, outcome)
          IN  file' = saved.file /\ save_result' = saved.result
    /\ saves' = saves + 1
    /\ pc' = "display"
    /\ UNCHANGED frozen
    /\ UNCHANGED <<field, kyc_data, locals, response, success, spoken, last_spoken, spoke,
                   tts_error, displayed, counters>>

Display ==
    /\ pc = "display"
    /\ displayed' = <<kyc_data>>
    /\ pc' = "done"
    /\ UNCHANGED frozen
    /\ UNCHANGED <<field, kyc_data, locals, response, success, spoken, last_spoken, spoke,
                   tts_error, file, saves, save_result, counters>>

Partial ==
    /\ pc = "partial"
    /\ success = "False"
    /\ displayed' = <<kyc_data>>
    /\ pc' = "done"
    /\ UNCHANGED frozen
    /\ UNCHANGED <<field, kyc_data, locals, response, success, spoken, last_spoken, spoke,
                   tts_error, file, saves, save_result, counters>>

Next ==
    \/ Welcome
    \/ G_Prompt \/ G_Listen1 \/ G_Reprompt1 \/ G_Listen2 \/ G_Reprompt2 \/ G_Listen3
    \/ G_CouldntHear \/ G_Invalid \/ G_RetryListen \/ G_DidntCatch \/ G_NoResponse
    \/ G_UnableVerify \/ UnableProceed
    \/ C_Prompt \/ C_Listen1 \/ C_Reprompt1 \/ C_Listen2 \/ C_Reprompt2 \/ C_Listen3
    \/ C_CouldntGet \/ C_Declined \/ C_SayYesNo \/ C_RetryListen \/ C_DidntHear
    \/ C_CouldntGetRetry \/ C_DeclinedRetry \/ C_NotUnderstood
    \/ Confirm \/ SumName \/ SumPhone \/ SumPan \/ SumConsent \/ Stamp \/ Complete
    \/ Save \/ Display \/ Partial

Spec == Init /\ [][Next]_vars

(***************************************************************************)
(* The program is sequential and every call it blocks in returns: listen() *)
(* is given a timeout and a phrase time limit, speak() and the file write  *)
(* return or raise into a handler.  So a step that can be taken is taken.  *)
(***************************************************************************)
FairSpec == Spec /\ WF_vars(Next)

(***************************************************************************)
(* The validators and extractors applied on their own, as methods of a bot *)
(* that has been constructed and whose session has not started.  The text  *)
(* they are applied to is drawn from three bounded families.               *)
(***************************************************************************)
\* names: every text of up to MaxNameLen characters over NameAlphabet
MaxNameLen == 3

NameAlphabet == {"A", "l", "1", "2", "3", " ", "\r"}

NameTexts == UNION {[1..n -> NameAlphabet] : n \in 0..MaxNameLen}

\* phones: the digit runs of up to 10 + PhoneSlack characters, any of them
\* replaced by a separator
PhoneSlack == 2

PhoneTexts ==
    UNION {{[i \in 1..n |-> IF i \in S THEN "-" ELSE DigitRun(n)[i]] : S \in SUBSET (1..n)} :
           n \in 0..(10 + PhoneSlack)}

\* identifiers: 10 - PanSlack .. 10 + PanSlack characters, letters where the
\* format has letters and digits where it has digits except at up to MaxWrong
\* positions, in three casings and three spacings
PanSlack == 1

MaxWrong == 2

PanLetter(i) == LowerSeq[IF i <= 5 THEN i ELSE i - 4]

PanDigit(i) == DigitRunSeq[((14 - i) % 10) + 1]

\* n characters, those at the positions W of the other class, those at L in lower case
PanCore(n, W, L) ==
    [i \in 1..n |->
        IF (i \in 6..9) # (i \in W) THEN PanDigit(i)
        ELSE IF i \in L THEN PanLetter(i) ELSE UpperChar(PanLetter(i))]

RECURSIVE Spaced(_, _, _)
\* s with a space put after each of its positions in P, from position i on
Spaced(s, P, i) ==
    IF i > Len(s) THEN <<>>
    ELSE (IF i \in P THEN <<s[i], " ">> ELSE <<s[i]>>) \o Spaced(s, P, i + 1)

PanTexts ==
    UNION {{Spaced(PanCore(n, W, L), P, 1) :
               W \in {X \in SUBSET (1..n) : Cardinality(X) <= MaxWrong},
               L \in {{}, 1..n, {2, 10}},
               P \in {{}, 1..(n - 1), {5, n}}} :
           n \in (10 - PanSlack)..(10 + PanSlack)}
    \cup {PanCore(10, {}, {}) \o <<"\n">>}

PureTexts == NameTexts \cup PhoneTexts \cup PanTexts

InitPure ==
    /\ SessionInit(EmptyRecord, DefaultMaxRetries, <<>>)
    /\ call_fn = "none"
    /\ call_arg \in PureTexts
    /\ ret_text = None
    /\ ret_bool = FALSE
    /\ OneRun

\* what a call of a validator or extractor leaves alone
session == <<pc, field, kyc_data, locals, response, success, spoken, last_spoken, spoke,
             tts_error, outputs, counters, max_retries, runs>>

\* a call of a validator: the text in, a boolean out
Validate(fn, result) ==
    /\ call_fn = "none"
    /\ call_fn' = fn
    /\ ret_bool' = result
    /\ UNCHANGED <<call_arg, ret_text, session>>

\* a call of an extractor: the text in, a text out
Extract(fn, result) ==
    /\ call_fn = "none"
    /\ call_fn' = fn
    /\ ret_text' = result
    /\ UNCHANGED <<call_arg, ret_bool, session>>

Call_validate_name == Validate("validate_name", validate_name(call_arg))

Call_validate_phone == Validate("validate_phone", validate_phone(call_arg))

Call_validate_pan == Validate("validate_pan", validate_pan(call_arg))

Call_extract_phone == Extract("extract_phone", extract_phone(call_arg))

Call_extract_pan == Extract("extract_pan", extract_pan(call_arg))

\* the extractor applied once more, to what it returned
Call_extract_phone_again ==
    /\ call_fn = "extract_phone"
    /\ call_fn' = "extract_phone_again"
    /\ call_arg' = ret_text
    /\ ret_text' = extract_phone(ret_text)
    /\ UNCHANGED <<ret_bool, session>>

Call_extract_pan_again ==
    /\ call_fn = "extract_pan"
    /\ call_fn' = "extract_pan_again"
    /\ call_arg' = ret_text
    /\ ret_text' = extract_pan(ret_text)
    /\ UNCHANGED <<ret_bool, session>>

\* what get_input_with_retry does with a captured text for field f: the
\* extractor run_kyc_session passed, if any, then the validator on its result
Process ==
    /\ call_fn = "none"
    /\ \E f \in TextFields :
        /\ call_fn' = "process_" \o f
        /\ ret_text' = extract_func(f, call_arg)
        /\ ret_bool' = validation_func(f, extract_func(f, call_arg))
    /\ UNCHANGED <<call_arg, session>>

NextPure ==
    \/ Call_validate_name \/ Call_validate_phone \/ Call_validate_pan
    \/ Call_extract_phone \/ Call_extract_pan
    \/ Call_extract_phone_again \/ Call_extract_pan_again
    \/ Process

SpecPure == InitPure /\ [][NextPure]_vars

(***************************************************************************)
(* Vocabulary of the properties.                                           *)
(***************************************************************************)
GListenSites == {"g_listen1", "g_listen2", "g_listen3", "g_retry_listen"}

CListenSites == {"c_listen1", "c_listen2", "c_listen3", "c_retry_listen"}

\* run_kyc_session has returned to main
Returned == success # "None"

AllDigits(s) == \A i \in 1..Len(s) : s[i] \in DigitChars

\* the record's constraints, written from the data model rather than the validators
WellFormedName(s) == Len(Strip(s)) >= 2 /\ \E i \in 1..Len(s) : IsAlpha(s[i])

WellFormedPhone(s) == Len(s) = 10 /\ AllDigits(s)

WellFormedPan(s) ==
    /\ Len(s) = 10
    /\ \A i \in {1, 2, 3, 4, 5, 10} : s[i] \in UpperChars
    /\ \A i \in {6, 7, 8, 9} : s[i] \in DigitChars

\* the response contains yes, yeah or sure, in any case
Affirmed(resp) ==
    /\ resp # None
    /\ \E i \in 1..Len(resp), j \in 1..Len(resp) :
          Lower(SubSeq(resp, i, j)) \in
              { <<"y", "e", "s">>, <<"y", "e", "a", "h">>, <<"s", "u", "r", "e">> }

SummaryTexts ==
    {"Thank you. Let me confirm your details.", "Name: ", "Phone: ", "PAN: ",
     "Consent: Provided",
     "Your KYC verification is complete. Thank you for using Decentro services."}

CannotProceedTexts ==
    {"I couldn't get your consent. Verification cannot proceed.",
     "You have declined consent. Verification cannot proceed.",
     "I couldn't understand your response. Verification cannot proceed."}

(***************************************************************************)
(* C1: save_to_json is called only after run_kyc_session returned True,    *)
(* and then name, phone and pan hold validated non-empty values, consent   *)
(* is True and the timestamp is set; a session that lacks a field or has   *)
(* consent False, or that returned False, never saves anything: the file   *)
(* is as it was before the session.                                        *)
(***************************************************************************)
RecordComplete ==
    /\ kyc_data.name # <<>> /\ validate_name(kyc_data.name)
    /\ kyc_data.phone # <<>> /\ validate_phone(kyc_data.phone)
    /\ kyc_data.pan # <<>> /\ validate_pan(kyc_data.pan)
    /\ kyc_data.consent = TRUE
    /\ kyc_data.timestamp # <<>>

C1_SaveState ==
    /\ (pc = "save" \/ saves > 0) => (success = "True" /\ RecordComplete)
    /\ ~RecordComplete => saves = 0
    /\ success = "False" => (saves = 0 /\ pc \in {"partial", "done"})
    /\ saves = 0 => file \in FilesBefore
    /\ saves <= 1

\* only a save_to_json call of a successful session touches the file
C1_SaveStep ==
    (saves' # saves \/ file' # file) =>
        (pc = "save" /\ success = "True" /\ RecordComplete /\ kyc_data' = kyc_data)

C1_SaveOnlyAfterSuccess == [] C1_SaveState /\ [][C1_SaveStep]_vars

C1_Witness == pc = "done" /\ saves = 1 /\ file = <<kyc_data>>

(***************************************************************************)
(* C2: in every state the stored name is empty or has trimmed length >= 2  *)
(* and a letter, the stored phone is empty or exactly 10 decimal digits,   *)
(* the stored pan is empty or 10 characters AAAAA9999A in upper case.      *)
(***************************************************************************)
C2_RecordWellFormed ==
    /\ kyc_data.name = <<>> \/ WellFormedName(kyc_data.name)
    /\ kyc_data.phone = <<>> \/ WellFormedPhone(kyc_data.phone)
    /\ kyc_data.pan = <<>> \/ WellFormedPan(kyc_data.pan)

\* all three stored, the pan differing from the text it was captured as
C2_Witness ==
    /\ kyc_data.name # <<>>
    /\ kyc_data.phone # <<>>
    /\ kyc_data.pan # <<>>
    /\ kyc_data.pan # user_input
    /\ pc = "c_prompt"

(***************************************************************************)
(* C3: consent is True only when the latest captured response contains an  *)
(* affirmative word; when get_consent gives up (three absences, or         *)
(* max_retries retries that are absent or unclassifiable) it returns       *)
(* False and consent stays False.                                          *)
(***************************************************************************)
C3_ConsentOnlyIfAffirmed ==
    /\ kyc_data.consent = TRUE => (field = "consent" /\ Affirmed(response))
    /\ pc \in {"confirm", "sum_name", "sum_phone", "sum_pan", "sum_consent", "stamp",
               "complete", "save", "display"} => Affirmed(response)
    /\ (field = "consent" /\ absences >= 3) => ~kyc_data.consent
    /\ (field = "consent" /\ pc \in {"c_couldnt_get", "c_couldnt_get_retry",
                                      "c_not_understood"})
          => (~kyc_data.consent /\ ~Affirmed(response))
    /\ (field = "consent" /\ Returned /\ ~Affirmed(response))
          => (success = "False" /\ ~kyc_data.consent)

\* consent given on the last validation retry
C3_Witness ==
    /\ kyc_data.consent = TRUE
    /\ retries = max_retries
    /\ pc = "confirm"

(***************************************************************************)
(* C4: the timestamp is written at most once; whenever it is non-empty the *)
(* name, phone and pan are non-empty and consent is True; and once         *)
(* run_kyc_session has returned, it returned True exactly when the         *)
(* timestamp is non-empty.                                                 *)
(***************************************************************************)
C4_TimestampState ==
    /\ kyc_data.timestamp # <<>> =>
          /\ kyc_data.name # <<>>
          /\ kyc_data.phone # <<>>
          /\ kyc_data.pan # <<>>
          /\ kyc_data.consent = TRUE
    /\ Returned => (success = "True" <=> kyc_data.timestamp # <<>>)

C4_TimestampWrittenOnce ==
    kyc_data.timestamp # <<>> => kyc_data'.timestamp = kyc_data.timestamp

C4_TimestampOnceOnSuccess ==
    [] C4_TimestampState /\ [][C4_TimestampWrittenOnce]_vars

C4_Witness == pc = "done" /\ success = "True" /\ kyc_data.timestamp \in ClockValues

(***************************************************************************)
(* C5: the record starts empty with consent False; phone non-empty implies *)
(* name non-empty, pan non-empty implies phone non-empty, consent True     *)
(* implies pan non-empty; and no listen for a field happens before the     *)
(* field before it has been stored.                                        *)
(***************************************************************************)
C5_FilledInOrder ==
    /\ pc = "welcome" =>
          kyc_data = [name |-> <<>>, phone |-> <<>>, pan |-> <<>>,
                      consent |-> FALSE, timestamp |-> <<>>]
    /\ kyc_data.phone # <<>> => kyc_data.name # <<>>
    /\ kyc_data.pan # <<>> => kyc_data.phone # <<>>
    /\ kyc_data.consent = TRUE => kyc_data.pan # <<>>
    /\ (pc \in GListenSites /\ field = "name") => kyc_data.phone = <<>>
    /\ (pc \in GListenSites /\ field = "phone") =>
          (kyc_data.name # <<>> /\ kyc_data.pan = <<>>)
    /\ (pc \in GListenSites /\ field = "pan") => kyc_data.phone # <<>>
    /\ pc \in GListenSites => (field \in TextFields /\ kyc_data[field] = <<>>)
    /\ pc \in CListenSites => (field = "consent" /\ kyc_data.pan # <<>>)

\* listening for consent with the three text fields stored
C5_Witness ==
    /\ pc = "c_retry_listen"
    /\ kyc_data.name # <<>>
    /\ kyc_data.phone # <<>>
    /\ kyc_data.pan # <<>>

(***************************************************************************)
(* C6: when get_input_with_retry returns absent for name, phone or pan,    *)
(* run_kyc_session speaks the termination message and returns False: no    *)
(* listen follows, the failed field and the later ones keep their initial  *)
(* values, and the fields collected before are kept.                       *)
(***************************************************************************)
EarlierFields(f) ==
    CASE f = "name"  -> {}
      [] f = "phone" -> {"name"}
      [] f = "pan"   -> {"name", "phone"}

C6_AbortState ==
    /\ pc \in {"g_couldnt_hear", "g_no_response", "g_unable_verify", "unable_proceed"} =>
          (field \in TextFields /\ success = "None")
    /\ (field \in TextFields /\ pc \in {"unable_proceed", "partial", "done"}) =>
          /\ \A f \in TextFields \ EarlierFields(field) : kyc_data[f] = <<>>
          /\ \A f \in EarlierFields(field) : kyc_data[f] # <<>>
          /\ kyc_data.consent = FALSE
          /\ kyc_data.timestamp = <<>>
    /\ (field \in TextFields /\ pc \in {"partial", "done"}) =>
          /\ success = "False"
          /\ last_spoken = Msg(unable_message(field))

C6_AbortStep ==
    (pc \in {"g_couldnt_hear", "g_no_response", "g_unable_verify", "unable_proceed",
             "partial"} /\ field \in TextFields) =>
        /\ kyc_data' = kyc_data
        /\ field' = field
        /\ listens' = listens
        /\ pc' \in {"unable_proceed", "partial", "done"}

C6_AbortOnFailedField == [] C6_AbortState /\ [][C6_AbortStep]_vars

\* the phone failed after the name was stored
C6_Witness ==
    /\ pc = "done"
    /\ field = "phone"
    /\ success = "False"
    /\ kyc_data.name # <<>>
    /\ kyc_data.phone = <<>>

(***************************************************************************)
(* C7: when get_consent returns False a cannot-proceed message has been    *)
(* spoken, run_kyc_session returns False, no summary or completion         *)
(* message is spoken, the timestamp stays empty, consent is False, and     *)
(* name, phone and pan keep the values collected before.                   *)
(***************************************************************************)
C7_ConsentFalseState ==
    /\ (field = "consent" /\ last_spoken.text \in CannotProceedTexts) =>
          /\ pc \in {"partial", "done"}
          /\ success = "False"
    /\ (field = "consent" /\ success = "False") =>
          /\ last_spoken.text \in CannotProceedTexts
          /\ \A m \in spoken : m.text \notin SummaryTexts
          /\ kyc_data.timestamp = <<>>
          /\ kyc_data.consent = FALSE
          /\ kyc_data.name # <<>>
          /\ kyc_data.phone # <<>>
          /\ kyc_data.pan # <<>>

C7_ConsentKeepsFields ==
    field = "consent" =>
        /\ kyc_data'.name = kyc_data.name
        /\ kyc_data'.phone = kyc_data.phone
        /\ kyc_data'.pan = kyc_data.pan
        /\ (success # "False" /\ success' = "False") =>
              (last_spoken' # last_spoken /\ last_spoken'.text \in CannotProceedTexts)

C7_ConsentFalseEndsSession == [] C7_ConsentFalseState /\ [][C7_ConsentKeepsFields]_vars

\* consent declined in words
C7_Witness ==
    /\ pc = "done"
    /\ field = "consent"
    /\ success = "False"
    /\ classify(response) = "no"

(***************************************************************************)
(* C8: for name, phone and pan, three listen results None in a row end the *)
(* session as aborted with that field left empty; one or two absences at   *)
(* the start of a field do not abort.                                      *)
(***************************************************************************)
AbortPath == {"g_couldnt_hear", "g_no_response", "g_unable_verify", "unable_proceed",
              "partial", "done"}

C8_ThreeAbsencesAbort ==
    /\ (field \in TextFields /\ absences >= 3) =>
          /\ pc \in AbortPath
          /\ success \in {"None", "False"}
          /\ pc \in {"partial", "done"} => success = "False"
          /\ kyc_data[field] = <<>>
    /\ (field \in TextFields /\ pc \notin {"welcome", "g_prompt"}
        /\ absences = listens /\ absences < 3) =>
          /\ pc \notin AbortPath
          /\ success = "None"

\* the pan was not heard three times, after name and phone were stored
C8_Witness ==
    /\ pc = "done"
    /\ field = "pan"
    /\ absences = 3
    /\ success = "False"
    /\ kyc_data.pan = <<>>

(***************************************************************************)
(* C9: after the first captured input failed validation, at most           *)
(* max_retries further listen calls are made for the field; each uses up   *)
(* exactly one retry, whether it gives an invalid value or None; the       *)
(* candidate is returned as soon as one validates, and absent is returned  *)
(* when the retries are used up.                                           *)
(***************************************************************************)
C9_RetryState ==
    field \in TextFields =>
        /\ retries <= max_retries
        /\ pc \in {"g_invalid", "g_retry_listen"} =>
              (attempt = retries /\ retries < max_retries)
        /\ pc = "g_didnt_catch" =>
              (retries = attempt + 1 /\ retries < max_retries /\ user_input = None)
        /\ pc \in {"g_no_response", "g_unable_verify"} => retries = max_retries
        /\ pc = "g_no_response" => user_input = None
        /\ pc = "g_unable_verify" =>
              (user_input # None /\ ~validation_func(field, processed_input))
        /\ pc \in {"g_listen2", "g_reprompt1", "g_listen3", "g_reprompt2",
                   "g_couldnt_hear"} => (retries = 0 /\ absences = listens)
        /\ retries > 0 => listens - retries \in 1..3

C9_RetryStep ==
    pc = "g_retry_listen" =>
        /\ retries' = retries + 1
        /\ listens' = listens + 1
        /\ IF user_input' # None
              /\ validation_func(field, extract_func(field, user_input'))
           THEN /\ kyc_data' = [kyc_data EXCEPT ![field] = extract_func(field, user_input')]
                /\ pc' \in {"g_prompt", "c_prompt"}
           ELSE /\ kyc_data' = kyc_data
                /\ pc' \in {"g_invalid", "g_didnt_catch", "g_no_response",
                            "g_unable_verify"}

C9_ValidationRetryBudget == [] C9_RetryState /\ [][C9_RetryStep]_vars

\* the phone retries were used up, the last of them by an absence
C9_Witness ==
    /\ field = "phone"
    /\ pc = "unable_proceed"
    /\ retries = max_retries
    /\ user_input = None
    /\ attempt = max_retries - 1

(***************************************************************************)
(* C10, as stated: capture absences and validation failures share one      *)
(* budget of max_retries, so a collector call makes at most                *)
(* 1 + max_retries listen calls.                                           *)
(***************************************************************************)
C10_SharedBudget == listens <= 1 + max_retries

(***************************************************************************)
(* C10, amended: the two budgets are separate.  A collector call makes at  *)
(* most 3 listen calls in its capture ladder and at most max_retries in    *)
(* its validation-retry loop, so at most 3 + max_retries in all.           *)
(***************************************************************************)
C10_SeparateBudgets ==
    /\ retries <= max_retries
    /\ listens - retries <= 3
    /\ listens <= 3 + max_retries
    /\ retries > 0 => absences <= retries

\* two absences, an invalid value, then both retries
C10_Witness == listens = 3 + max_retries /\ retries = max_retries /\ pc # "done"

(* "no" or "nope", consent is resolved to False with the decline message;  *)
(* whenever it contains "yes", "yeah" or "sure", consent is True.          *)
(***************************************************************************)
\* the response contains no (and so also when it contains nope), in any case
Refused(resp) ==
    /\ resp # None
    /\ \E i \in 1..Len(resp), j \in 1..Len(resp) :
          Lower(SubSeq(resp, i, j)) \in { <<"n", "o">>, <<"n", "o", "p", "e">> }

DeclineText == "You have declined consent. Verification cannot proceed."

\* the consent collector's latest listen call captured a text
ConsentCaptured == field = "consent" /\ pc # "c_prompt" /\ listens > 0 /\ absences = 0

C12_TokensDecideAlone ==
    ConsentCaptured =>
        /\ Affirmed(response) =>
              (kyc_data.consent = TRUE /\ pc \notin {"c_declined", "c_declined_retry"})
        /\ Refused(response) =>
              /\ kyc_data.consent = FALSE
              /\ pc \in {"c_declined", "c_declined_retry", "partial", "done"}
              /\ pc \in {"partial", "done"} => last_spoken.text = DeclineText

(***************************************************************************)
(* C12, amended: the affirmative words are looked for first.  A captured   *)
(* consent response containing "yes", "yeah" or "sure" resolves consent to *)
(* True and nothing is spoken for it, even when it also contains "no"; a   *)
(* response with no affirmative word that contains "no" resolves consent   *)
(* to False after the decline message is spoken; a response with none of   *)
(* the words resolves nothing and leads to the next validation retry when  *)
(* one is left (one more prompt and one more listen call), and to the      *)
(* not-understood ending otherwise.                                        *)
(***************************************************************************)
C12_ClassifiedState ==
    ConsentCaptured =>
        /\ Affirmed(response) =>
              /\ kyc_data.consent = TRUE
              /\ success \in {"None", "True"}
              /\ pc \in {"confirm", "sum_name", "sum_phone", "sum_pan", "sum_consent",
                         "stamp", "complete", "save", "display", "done"}
        /\ (~Affirmed(response) /\ Refused(response)) =>
              /\ kyc_data.consent = FALSE
              /\ pc \in {"c_declined", "c_declined_retry", "partial", "done"}
              /\ pc \in {"c_declined", "c_declined_retry"} => success = "None"
              /\ pc \in {"partial", "done"} =>
                    (success = "False" /\ last_spoken.text = DeclineText)
        /\ (~Affirmed(response) /\ ~Refused(response)) =>
              /\ kyc_data.consent = FALSE
              /\ pc \in {"c_say_yes_no", "c_retry_listen", "c_not_understood",
                         "partial", "done"}
              /\ pc \in {"c_say_yes_no", "c_retry_listen"} => retries < max_retries
              /\ pc = "c_not_understood" => retries = max_retries

C12_ClassifyStep ==
    /\ (pc \in CListenSites /\ response' # None) =>
          IF Affirmed(response')
          THEN /\ kyc_data' = [kyc_data EXCEPT !.consent = TRUE]
               /\ pc' = "confirm"
               /\ last_spoken' = last_spoken
          ELSE IF Refused(response')
          THEN /\ kyc_data' = kyc_data
               /\ pc' = IF pc = "c_retry_listen" THEN "c_declined_retry" ELSE "c_declined"
          ELSE /\ kyc_data' = kyc_data
               /\ success' = success
               /\ pc' = IF retries' < max_retries THEN "c_say_yes_no" ELSE "c_not_understood"
    /\ pc \in {"c_declined", "c_declined_retry"} =>
          /\ last_spoken'.text = DeclineText
          /\ kyc_data' = kyc_data
          /\ success' = "False"
          /\ pc' = "partial"
    /\ pc = "c_say_yes_no" => (pc' = "c_retry_listen" /\ listens' = listens)
    /\ pc = "c_retry_listen" => (retries' = retries + 1 /\ listens' = listens + 1)

C12_YesBeforeNo == [] C12_ClassifiedState /\ [][C12_ClassifyStep]_vars

\* a response with both kinds of word was taken as consent
C12_Witness ==
    /\ ConsentCaptured
    /\ Affirmed(response)
    /\ Refused(response)
    /\ kyc_data.consent = TRUE
    /\ pc = "confirm"

(***************************************************************************)
(* C13: with max_retries = 2 no collector call makes more than 5 listen    *)
(* calls (at most 3 before its validation-retry loop and at most 2 in it), *)
(* a session makes at most 20, and whatever the listen results are the     *)
(* session reaches its end with run_kyc_session having returned True or    *)
(* False.                                                                  *)
(***************************************************************************)
\* how many collector calls have been started when `f` is the active one
CollectorIndex(f) ==
    CASE f = "name"    -> 1
      [] f = "phone"   -> 2
      [] f = "pan"     -> 3
      [] f = "consent" -> 4

C13_ListenBounds ==
    /\ max_retries = 2
    /\ listens <= 5
    /\ listens - retries <= 3
    /\ retries <= 2
    /\ listens <= total_listens
    /\ total_listens <= 5 * CollectorIndex(field)
    /\ total_listens <= 20
    /\ pc = "done" => success \in {"True", "False"}

C13_BoundedSession ==
    [] C13_ListenBounds /\ <>(pc = "done" /\ success \in {"True", "False"})

\* a successful session in which every collector used its 5 listen calls
C13_Witness ==
    /\ pc = "done"
    /\ success = "True"
    /\ total_listens = 20
    /\ listens = 5

(***************************************************************************)
(* C14: a summary utterance has been spoken only if get_consent returned   *)
(* True, and it carries the stored value; the timestamp is set only when   *)
(* the whole summary has been spoken; the completion message has been      *)
(* spoken only if the timestamp is set; run_kyc_session has returned True  *)
(* only if the completion message has been spoken; and no listen call is   *)
(* made before the welcome message has been spoken.                        *)
(***************************************************************************)
WelcomeMsg ==
    Msg("Welcome to Decentro KYC verification. I will guide you through a quick verification process.")

CompletionMsg ==
    Msg("Your KYC verification is complete. Thank you for using Decentro services.")

\* the five utterances of the summary, for the record as it is stored now
SummaryMsgs ==
    { Msg("Thank you. Let me confirm your details."),
      [text |-> "Name: ", value |-> kyc_data.name],
      [text |-> "Phone: ", value |-> kyc_data.phone],
      [text |-> "PAN: ", value |-> kyc_data.pan],
      Msg("Consent: Provided") }

SummaryHeads ==
    {"Thank you. Let me confirm your details.", "Name: ", "Phone: ", "PAN: ",
     "Consent: Provided"}

C14_TailState ==
    /\ \A m \in spoken :
          m.text \in SummaryHeads =>
              /\ kyc_data.consent = TRUE
              /\ Affirmed(response)
              /\ m \in SummaryMsgs
    /\ kyc_data.timestamp # <<>> => SummaryMsgs \subseteq spoken
    /\ CompletionMsg \in spoken => kyc_data.timestamp # <<>>
    /\ success = "True" => (CompletionMsg \in spoken /\ last_spoken = CompletionMsg)
    /\ total_listens > 0 => WelcomeMsg \in spoken
    /\ pc \in GListenSites \cup CListenSites => WelcomeMsg \in spoken

C14_TailStep ==
    /\ total_listens' # total_listens => WelcomeMsg \in spoken
    /\ (\E m \in spoken' \ spoken : m.text \in SummaryHeads) =>
          (kyc_data.consent = TRUE /\ kyc_data' = kyc_data)
    /\ kyc_data'.timestamp # kyc_data.timestamp =>
          (SummaryMsgs \subseteq spoken /\ CompletionMsg \notin spoken /\ success = "None")
    /\ (CompletionMsg \in spoken' \ spoken) => kyc_data.timestamp # <<>>
    /\ (success' = "True" /\ success # "True") => last_spoken' = CompletionMsg

C14_SuccessTailOrdered == [] C14_TailState /\ [][C14_TailStep]_vars

\* the timestamp has just been set: the summary is behind, the completion ahead
C14_Witness ==
    /\ pc = "complete"
    /\ kyc_data.timestamp # <<>>
    /\ SummaryMsgs \subseteq spoken
    /\ CompletionMsg \notin spoken

(***************************************************************************)
(* Reference rules for the texts, written from the format rules rather     *)
(* than from the validators and extractors.                                *)
(***************************************************************************)
\* the decimal digits of s, in order
RECURSIVE DigitsOf(_)
DigitsOf(s) ==
    IF s = <<>> THEN <<>>
    ELSE (IF Head(s) \in DigitChars THEN <<Head(s)>> ELSE <<>>) \o DigitsOf(Tail(s))

\* s without its spaces
RECURSIVE SpaceFree(_)
SpaceFree(s) ==
    IF s = <<>> THEN <<>>
    ELSE (IF Head(s) = " " THEN <<>> ELSE <<Head(s)>>) \o SpaceFree(Tail(s))

\* s without its spaces, in upper case
SpaceFreeUpper(s) == Upper(SpaceFree(s))

(***************************************************************************)
(* C15: when the first listen result of the name collector is a valid      *)
(* name it is stored as heard and the phone collector starts; when the     *)
(* first listen result for the phone has exactly 10 digits these are       *)
(* stored; when the first listen result for the pan is a valid identifier  *)
(* after space removal and upper-casing, that form is stored; when the     *)
(* first consent response is affirmative consent is True.  A session of    *)
(* these four steps makes exactly four listen calls, goes on to return     *)
(* True with the timestamp set, and then calls save_to_json once, which    *)
(* writes this record unless the write fails.                              *)
(***************************************************************************)
HappyTail ==
    {"confirm", "sum_name", "sum_phone", "sum_pan", "sum_consent", "stamp", "complete",
     "save", "display"}

C15_HappyStep ==
    /\ (pc = "g_listen1" /\ field = "name" /\ user_input' # None
        /\ WellFormedName(user_input')) =>
          /\ kyc_data' = [kyc_data EXCEPT !.name = user_input']
          /\ field' = "phone" /\ pc' = "g_prompt"
          /\ total_listens' = 1
    /\ (pc = "g_listen1" /\ field = "phone" /\ user_input' # None
        /\ Len(DigitsOf(user_input')) = 10) =>
          /\ kyc_data' = [kyc_data EXCEPT !.phone = DigitsOf(user_input')]
          /\ field' = "pan" /\ pc' = "g_prompt"
          /\ total_listens' = total_listens + 1
    /\ (pc = "g_listen1" /\ field = "pan" /\ user_input' # None
        /\ WellFormedPan(SpaceFreeUpper(user_input'))) =>
          /\ kyc_data' = [kyc_data EXCEPT !.pan = SpaceFreeUpper(user_input')]
          /\ field' = "consent" /\ pc' = "c_prompt"
          /\ total_listens' = total_listens + 1
    /\ (pc = "c_listen1" /\ Affirmed(response')) =>
          /\ kyc_data' = [kyc_data EXCEPT !.consent = TRUE]
          /\ pc' = "confirm"
          /\ total_listens' = total_listens + 1
    /\ pc \in HappyTail =>
          /\ pc' \in HappyTail \cup {"done"}
          /\ total_listens' = total_listens
          /\ [kyc_data' EXCEPT !.timestamp = <<>>] = [kyc_data EXCEPT !.timestamp = <<>>]

C15_HappyState ==
    /\ (total_listens = 4 /\ pc \in HappyTail \cup {"done"} /\ kyc_data.consent = TRUE) =>
          /\ WellFormedName(kyc_data.name)
          /\ WellFormedPhone(kyc_data.phone)
          /\ WellFormedPan(kyc_data.pan)
          /\ kyc_data.consent = TRUE
          /\ success \in {"None", "True"}
    /\ pc \in HappyTail => (kyc_data.consent = TRUE /\ total_listens >= 4)
    /\ (pc = "done" /\ kyc_data.consent = TRUE) =>
          /\ success = "True"
          /\ kyc_data.timestamp # <<>>
          /\ saves = 1
          /\ save_result \in {"True", "False"}
          /\ save_result = "True" => file = <<kyc_data>>

C15_HappyPath ==
    /\ [] C15_HappyState
    /\ [][C15_HappyStep]_vars
    /\ (pc \in HappyTail) ~> (pc = "done" /\ success = "True" /\ saves = 1)

\* John Smith, 9876543210, abcde 1234f, Yes: four listen calls, the record saved
C15_Witness ==
    /\ pc = "done"
    /\ success = "True"
    /\ total_listens = 4
    /\ kyc_data.name = <<"J", "o", "h", "n", " ", "S", "m", "i", "t", "h">>
    /\ kyc_data.phone = <<"9", "8", "7", "6", "5", "4", "3", "2", "1", "0">>
    /\ kyc_data.pan = <<"A", "B", "C", "D", "E", "1", "2", "3", "4", "F">>
    /\ kyc_data.consent = TRUE
    /\ kyc_data.timestamp \in ClockValues
    /\ file = <<kyc_data>>

(***************************************************************************)
(* C16: a save_to_json call whose write fails returns False, leaves        *)
(* kyc_data and the session result as they were, and is followed by the    *)
(* same display of the complete record as a call whose write succeeds.     *)
(* The file then holds what it held before or, when it was opened and cut  *)
(* short, no record; it holds the session's record only when True is       *)
(* returned.                                                               *)
(***************************************************************************)
C16_SaveStep ==
    /\ pc = "save" =>
          /\ save_result' \in {"True", "False"}
          /\ save_result' = "False" => file' \in {file, <<>>}
          /\ save_result' = "True" => file' = <<kyc_data>>
          /\ kyc_data' = kyc_data
          /\ success' = success
          /\ pc' = "display"
    /\ pc = "display" =>
          /\ displayed' = <<kyc_data>>
          /\ kyc_data' = kyc_data
          /\ success' = success
          /\ save_result' = save_result
          /\ pc' = "done"

C16_SaveState ==
    /\ save_result = "None" <=> saves = 0
    /\ save_result # "None" =>
          /\ success = "True"
          /\ RecordComplete
          /\ pc \in {"display", "done"}
          /\ pc = "done" => displayed = <<kyc_data>>
    /\ save_result = "False" => file \in FilesBefore
    /\ save_result = "True" => file = <<kyc_data>>

C16_SaveFailureKeepsSuccess == [] C16_SaveState /\ [][C16_SaveStep]_vars

\* the write failed; the session is still a success and the record was displayed
C16_Witness ==
    /\ pc = "done"
    /\ save_result = "False"
    /\ file = <<>>
    /\ success = "True"
    /\ RecordComplete
    /\ displayed = <<kyc_data>>

(***************************************************************************)
(* Two runs of the program side by side.  Both start as Init says and take *)
(* their steps in turn, one step of the first run and then one step of the *)
(* second, each step a step of Next.  A listen() call of the second run    *)
(* returns what the same call of the first run returned; whether a speak() *)
(* call fails, what the clock reads and how the save goes are drawn for    *)
(* each run on its own.  The run that waits is kept in `twin`.             *)
(***************************************************************************)
\* the state of the run that is stepping
Snapshot ==
    [pc              |-> pc,
     field           |-> field,
     kyc_data        |-> kyc_data,
     user_input      |-> user_input,
     processed_input |-> processed_input,
     attempt         |-> attempt,
     response        |-> response,
     success         |-> success,
     spoken          |-> spoken,
     last_spoken     |-> last_spoken,
     spoke           |-> spoke,
     tts_error       |-> tts_error,
     file            |-> file,
     saves           |-> saves,
     save_result     |-> save_result,
     displayed       |-> displayed,
     listens         |-> listens,
     absences        |-> absences,
     retries         |-> retries,
     total_listens   |-> total_listens]

\* the run that waited goes on from the state r it was left in
Resume(r) ==
    /\ pc' = r.pc
    /\ field' = r.field
    /\ kyc_data' = r.kyc_data
    /\ user_input' = r.user_input
    /\ processed_input' = r.processed_input
    /\ attempt' = r.attempt
    /\ response' = r.response
    /\ success' = r.success
    /\ spoken' = r.spoken
    /\ last_spoken' = r.last_spoken
    /\ spoke' = r.spoke
    /\ tts_error' = r.tts_error
    /\ file' = r.file
    /\ saves' = r.saves
    /\ save_result' = r.save_result
    /\ displayed' = r.displayed
    /\ listens' = r.listens
    /\ absences' = r.absences
    /\ retries' = r.retries
    /\ total_listens' = r.total_listens

\* both runs start where no earlier run left a file
InitTwoRuns ==
    /\ SessionInit(EmptyRecord, DefaultMaxRetries, <<>>)
    /\ NoCall
    /\ turn = 1
    /\ twin = Snapshot
    /\ mark = Snapshot

\* the stepping run has not taken its step yet
ToStep == Snapshot = mark

\* a listen() call of this step returns what the waiting run's latest call returned
SameResult ==
    /\ pc \in GListenSites => user_input' = twin.user_input
    /\ pc \in CListenSites => response' = twin.response

FirstRunStep == turn = 1 /\ ToStep /\ Next

SecondRunStep == turn = 2 /\ ToStep /\ Next /\ SameResult

\* the run that took its step waits, the other one goes on
TakeTurns ==
    /\ turn \in {1, 2}
    /\ ~ToStep
    /\ twin' = Snapshot
    /\ mark' = twin
    /\ turn' = 3 - turn
    /\ Resume(twin)
    /\ UNCHANGED <<max_retries, call_fn, call_arg, ret_text, ret_bool>>

NextTwoRuns == FirstRunStep \/ SecondRunStep \/ TakeTurns

SpecTwoRuns == InitTwoRuns /\ [][NextTwoRuns]_vars

(***************************************************************************)
(* C17: two runs fed the same listen results, whatever speak() calls fail  *)
(* in each, are after every step at the same place in the program, have    *)
(* made the same listen calls, have passed the same texts to speak(), hold *)
(* the same locals, the same record apart from the value of the timestamp, *)
(* and the same result; a speak() call that failed is followed by the step *)
(* that follows it when it succeeds.                                       *)
(***************************************************************************)
\* the record without the value of its timestamp
Unstamped(data) ==
    [data EXCEPT !.timestamp = IF data.timestamp = <<>> THEN <<>> ELSE <<"T">>]

Agree(a, b) ==
    /\ a.pc = b.pc
    /\ a.field = b.field
    /\ a.success = b.success
    /\ Unstamped(a.kyc_data) = Unstamped(b.kyc_data)
    /\ a.user_input = b.user_input
    /\ a.processed_input = b.processed_input
    /\ a.attempt = b.attempt
    /\ a.response = b.response
    /\ a.spoken = b.spoken
    /\ a.last_spoken = b.last_spoken
    /\ a.spoke = b.spoke
    /\ a.saves = b.saves
    /\ a.listens = b.listens
    /\ a.absences = b.absences
    /\ a.retries = b.retries
    /\ a.total_listens = b.total_listens

\* both runs have taken the same number of steps
C17_RunsAgree == (turn = 1 /\ ToStep) => Agree(Snapshot, twin)

\* the second run takes the step the first run took: the same call, with the same text
C17_SameStep ==
    (turn = 2 /\ ToStep) =>
        /\ pc' = twin.pc
        /\ last_spoken' = twin.last_spoken
        /\ spoke' = twin.spoke
        /\ total_listens' = twin.total_listens
        /\ success' = twin.success
        /\ Unstamped(kyc_data') = Unstamped(twin.kyc_data)

C17_SpeechFailuresUnseen == [] C17_RunsAgree /\ [][C17_SameStep]_vars

\* both runs completed after four listen calls; the last speak() call failed in one only
C17_Witness ==
    /\ turn = 1
    /\ ToStep
    /\ pc = "done"
    /\ success = "True"
    /\ total_listens = 4
    /\ tts_error
    /\ ~twin.tts_error
    /\ twin.success = "True"

(***************************************************************************)
(* C18: validate_name returns False exactly when the text, with leading    *)
(* and trailing whitespace left out, has fewer than 2 characters or the    *)
(* text has no letter; and what the name collector validates and returns   *)
(* for a captured text is the captured text itself.                        *)
(***************************************************************************)
\* the positions of s that hold something other than whitespace
InkPositions(s) == {i \in 1..Len(s) : s[i] \notin WhiteChars}

\* the length of s from its first to its last non-whitespace character
TrimmedLength(s) ==
    IF InkPositions(s) = {} THEN 0
    ELSE LET first == CHOOSE i \in InkPositions(s) : \A j \in InkPositions(s) : i <= j
             last  == CHOOSE i \in InkPositions(s) : \A j \in InkPositions(s) : j <= i
         IN  last - first + 1

HasLetter(s) == \E i \in 1..Len(s) : s[i] \in LowerChars \cup UpperChars

NameRejected(s) == TrimmedLength(s) < 2 \/ ~HasLetter(s)

C18_NameRule ==
    /\ call_fn = "validate_name" => (ret_bool = FALSE <=> NameRejected(call_arg))
    /\ call_fn = "process_name" =>
          /\ ret_text = call_arg
          /\ ret_bool = FALSE <=> NameRejected(call_arg)

\* a letter between a carriage return and a space: three characters, one when trimmed
C18_Witness ==
    /\ call_fn = "validate_name"
    /\ call_arg = <<"\r", "A", " ">>
    /\ ret_bool = FALSE

(***************************************************************************)
(* C19: extract_phone returns the digits of the text, in order, cut to the *)
(* first 10 when there are 10 or more and whole otherwise; validate_phone  *)
(* returns True exactly when the digits of its argument number 10; and     *)
(* extract_phone applied to its own result returns that result.            *)
(***************************************************************************)
IsPrefix(p, s) == Len(p) <= Len(s) /\ p = SubSeq(s, 1, Len(p))

C19_PhoneRule ==
    /\ call_fn = "extract_phone" =>
          /\ IsPrefix(ret_text, DigitsOf(call_arg))
          /\ Len(ret_text) = IF Len(DigitsOf(call_arg)) >= 10 THEN 10
                             ELSE Len(DigitsOf(call_arg))
    /\ call_fn = "validate_phone" => (ret_bool <=> Len(DigitsOf(call_arg)) = 10)
    /\ call_fn = "extract_phone_again" => ret_text = call_arg

\* 11 digits after a separator: all but the last are returned
C19_Witness ==
    /\ call_fn = "extract_phone"
    /\ call_arg = <<"-">> \o SubSeq(DigitRun(12), 2, 12)
    /\ ret_text = SubSeq(DigitRun(12), 2, 11)

(***************************************************************************)
(* C20: extract_pan returns the text without its spaces and in upper case, *)
(* and applied to its own result returns that result; validate_pan returns *)
(* True exactly when the text without its spaces and in upper case is 10   *)
(* characters: 5 letters, 4 digits, 1 letter.                              *)
(***************************************************************************)
C20_PanRule ==
    /\ call_fn = "extract_pan" => ret_text = SpaceFreeUpper(call_arg)
    /\ call_fn = "extract_pan_again" => ret_text = call_arg
    /\ call_fn = "validate_pan" => (ret_bool <=> WellFormedPan(SpaceFreeUpper(call_arg)))

\* a b c d e 1 2 3 4 f is valid
C20_Witness ==
    /\ call_fn = "validate_pan"
    /\ call_arg = <<"a", " ", "b", " ", "c", " ", "d", " ", "e", " ", "1", " ", "2", " ",
                    "3", " ", "4", " ", "f">>
    /\ ret_bool = TRUE

(***************************************************************************)
(* C21: every listen call is made after a speak call that followed the     *)
(* listen call before it, so no two listen calls are back to back and a    *)
(* listen result of None or of an invalid value is followed by an          *)
(* utterance before the next attempt.  A session that ended as aborted has *)
(* a terminal message as its last utterance: the Unable to proceed message *)
(* of the failed field, or a cannot-proceed message for consent; and once  *)
(* a terminal message is the last utterance no listen call is made.        *)
(***************************************************************************)
UnableTexts == {unable_message(f) : f \in TextFields}

TerminalTexts == UnableTexts \cup CannotProceedTexts

C21_AnnouncedState ==
    /\ pc \in GListenSites \cup CListenSites => spoke
    /\ (pc = "done" /\ success = "False") =>
          /\ last_spoken.text \in TerminalTexts
          /\ field \in TextFields => last_spoken.text = unable_message(field)
          /\ field = "consent" => last_spoken.text \in CannotProceedTexts
    /\ last_spoken.text \in TerminalTexts =>
          (pc \in {"partial", "done"} /\ success = "False")

C21_AnnouncedStep ==
    /\ total_listens' # total_listens => (spoke /\ ~spoke')
    /\ pc \in GListenSites \cup CListenSites =>
          (total_listens' = total_listens + 1
           /\ pc' \notin GListenSites \cup CListenSites)
    /\ (~spoke /\ pc # "welcome") =>
          (total_listens' = total_listens /\ last_spoken'.text # "" /\ spoke')
    /\ last_spoken.text \in TerminalTexts =>
          (total_listens' = total_listens /\ last_spoken' = last_spoken)

C21_FailuresAnnounced == [] C21_AnnouncedState /\ [][C21_AnnouncedStep]_vars

\* an absence in the validation-retry loop and its reprompt, the next attempt ahead
C21_Witness ==
    /\ pc = "g_invalid"
    /\ user_input = None
    /\ retries = 1
    /\ spoke
    /\ last_spoken.text = "I didn't catch that. Let's try again."

(***************************************************************************)
(* C22: the step of the session (name, phone, pan, consent, summary) never *)
(* moves backward; a stored name, phone or pan is never written again; and *)
(* a step writes at most the field being collected, so collecting or       *)
(* failing a later field leaves the fields stored before unchanged.        *)
(***************************************************************************)
\* 1..4 for the collector being run, 5 once get_consent has returned True
Stage == IF kyc_data.consent = TRUE THEN 5 ELSE CollectorIndex(field)

C22_ForwardStep ==
    /\ Stage' >= Stage
    /\ \A f \in TextFields :
          /\ kyc_data[f] # <<>> => kyc_data'[f] = kyc_data[f]
          /\ kyc_data'[f] # kyc_data[f] =>
                /\ f = field
                /\ pc \in GListenSites
                /\ Stage' = Stage + 1
    /\ field' # field => (field \in TextFields /\ kyc_data'[field] # <<>>)

C22_ForwardState ==
    \A f \in TextFields :
        /\ CollectorIndex(f) < Stage => (kyc_data[f] # <<>> /\ validation_func(f, kyc_data[f]))
        /\ (CollectorIndex(f) > CollectorIndex(field)) => kyc_data[f] = <<>>

C22_NoRewindWriteOnce == [] C22_ForwardState /\ [][C22_ForwardStep]_vars

\* the pan failed after all its retries; name and phone are as they were stored
C22_Witness ==
    /\ pc = "done"
    /\ field = "pan"
    /\ success = "False"
    /\ listens = 3 + max_retries
    /\ kyc_data.name # <<>>
    /\ kyc_data.phone # <<>>
    /\ kyc_data.pan = <<>>

(***************************************************************************)
(* C23: a text captured by a listen call of the phone collector is         *)
(* accepted exactly when it holds at least 10 decimal digits.  Its first   *)
(* 10 digits are then stored and the pan collector starts, with no         *)
(* validation retry made for the digits beyond the tenth.  A text with     *)
(* fewer than 10 digits is not stored: the next validation retry follows   *)
(* when one is left, and the field fails otherwise.                        *)
(***************************************************************************)
C23_PhoneStep ==
    /\ (pc \in GListenSites /\ field = "phone" /\ user_input' # None) =>
          IF Len(DigitsOf(user_input')) >= 10
          THEN /\ kyc_data' = [kyc_data EXCEPT !.phone = SubSeq(DigitsOf(user_input'), 1, 10)]
               /\ field' = "pan"
               /\ pc' = "g_prompt"
               /\ retries' = IF pc = "g_retry_listen" THEN retries + 1 ELSE retries
          ELSE /\ kyc_data' = kyc_data
               /\ field' = "phone"
               /\ pc' = IF retries' < max_retries THEN "g_invalid" ELSE "g_unable_verify"
    /\ (pc = "g_invalid" /\ field = "phone") =>
          (pc' = "g_retry_listen" /\ retries' = retries /\ kyc_data' = kyc_data)
    /\ (pc = "g_retry_listen" /\ field = "phone") =>
          (retries' = retries + 1 /\ listens' = listens + 1)

C23_PhoneState ==
    /\ (field = "phone" /\ pc \in {"g_invalid", "g_retry_listen"} /\ user_input # None) =>
          (Len(DigitsOf(user_input)) < 10 /\ retries < max_retries)
    /\ (field = "phone" /\ pc = "g_unable_verify") =>
          (Len(DigitsOf(user_input)) < 10 /\ retries = max_retries /\ kyc_data.phone = <<>>)
    /\ (field = "pan" /\ pc = "g_prompt") =>
          /\ Len(DigitsOf(user_input)) >= 10
          /\ kyc_data.phone = SubSeq(DigitsOf(user_input), 1, 10)

C23_PhoneAcceptedIffTenDigits == [] C23_PhoneState /\ [][C23_PhoneStep]_vars

\* 11 digits heard first: the first 10 stored, no retry made
C23_Witness ==
    /\ field = "pan"
    /\ pc = "g_prompt"
    /\ user_input = DigitRun(11)
    /\ kyc_data.phone = DigitRun(10)
    /\ listens = 1
    /\ retries = 0

=============================================================================
